---------------------------- MODULE Spec2Model ----------------------------
(* Model of detinfo::DetectorClocksStandard                                *)
(* (lardataalg/DetectorInfo/DetectorClocksStandard.h).                     *)
(*                                                                         *)
(* The provider owns four ElecClock objects, the event timing state        *)
(* (trigger and beam gate time), the Geant4 reference time and the         *)
(* configured TPC trigger offset.  Every `double` of the program is an     *)
(* exact rational here, a pair <<numerator, denominator>> in lowest terms  *)
(* with a positive denominator, so that equality of values is equality of  *)
(* pairs: the arithmetic is the one the code writes, without the rounding  *)
(* of the floating point unit.                                             *)
EXTENDS Integers, Sequences, FiniteSets, TLC

---------------------------------------------------------------------------
(* Bounds of the model.                                                    *)

\* the properties quantify over ticks -MaxTick..MaxTick and over samples
\* and frames 0..MaxTick
MaxTick == 2
\* trigger times are the multiples of 100 us up to 100 * MaxTimeStep,
\* simulated trigger times the multiples of 90 us up to 90 * MaxTimeStep
MaxTimeStep == 1

---------------------------------------------------------------------------
(* double arithmetic, exact.                                               *)

Abs(n) == IF n < 0 THEN -n ELSE n

RECURSIVE GCD(_, _)
GCD(a, b) == IF b = 0 THEN a ELSE GCD(b, a % b)

\* the value n/d (d # 0) in lowest terms with a positive denominator
Norm(n, d) ==
  LET g == GCD(Abs(n), Abs(d))
      s == IF d < 0 THEN -1 ELSE 1
  IN  <<(s * n) \div g, (s * d) \div g>>

Rat(n) == <<n, 1>>
RAdd(a, b) == Norm(a[1] * b[2] + b[1] * a[2], a[2] * b[2])
RSub(a, b) == Norm(a[1] * b[2] - b[1] * a[2], a[2] * b[2])
RNeg(a) == <<-a[1], a[2]>>
RMul(a, b) == Norm(a[1] * b[1], a[2] * b[2])
RDiv(a, b) == Norm(a[1] * b[2], a[2] * b[1])
RLess(a, b) == a[1] * b[2] < b[1] * a[2]
\* conversion of a double to an integer type: truncation toward zero
RTrunc(a) == IF a[1] >= 0 THEN a[1] \div a[2] ELSE -((-a[1]) \div a[2])

---------------------------------------------------------------------------
(* detinfo::ElecClock: one clock domain.  fTime is the reference instant,  *)
(* fFramePeriod and fFrequency are fixed at construction.                  *)

ElecClock(time, frame_period, frequency) ==
  [fTime |-> time, fFramePeriod |-> frame_period, fFrequency |-> frequency]

Frequency(c) == c.fFrequency
FramePeriod(c) == c.fFramePeriod
TickPeriod(c) == RDiv(Rat(1), c.fFrequency)
\* ticks per frame: framePeriod / tickPeriod as an integer tick count
FrameTicks(c) == RTrunc(RDiv(c.fFramePeriod, TickPeriod(c)))
\* Time(): the reference instant
ClockTime(c) == c.fTime
\* Time(sample, frame)
Time(c, sample, frame) ==
  RAdd(RMul(Rat(frame), c.fFramePeriod), RMul(Rat(sample), TickPeriod(c)))
\* Ticks(sample, frame)
Ticks(c, sample, frame) == frame * FrameTicks(c) + sample
\* SetTime(time)
SetTime(c, time) == [c EXCEPT !.fTime = time]
\* SetTime(sample, frame)
SetTimeSF(c, sample, frame) == [c EXCEPT !.fTime = Time(c, sample, frame)]

---------------------------------------------------------------------------
(* detinfo::DetectorClocksStandard.  A provider is a record of the         *)
(* protected data members; every member function is an operator on it.    *)

VARIABLES
  det,         \* the provider object
  call,        \* the last member function called, its arguments and result
  lastTrig,    \* arguments of the latest SetTriggerTime call, if any
  lastRebase   \* latest RebaseG4RefTime call: trigger time then, argument,
               \* and whether the call before it saw another trigger time

vars == <<det, call, lastTrig, lastRebase>>

\* positions of the configuration items in fConfigName / fConfigValue
ConfigNames0 ==
  << "G4RefTime", "TriggerOffsetTPC", "FramePeriod", "ClockSpeedTPC",
     "ClockSpeedOptical", "ClockSpeedTrigger", "ClockSpeedExternal",
     "DefaultTrigTime", "DefaultBeamTime" >>

\* the configurations: every encoding of the trigger offset (microseconds,
\* ticks, zero) on two detectors, one with a whole number of ticks in a
\* frame for every clock and one without
TriggerOffsets == {Rat(-1600), Rat(3200), Rat(0)}
Configurations ==
  { <<Rat(1), o, Rat(1600), Rat(2), Rat(64), Rat(16), <<125, 4>>, Rat(0), Rat(0)>> :
      o \in TriggerOffsets }
  \cup
  { <<Rat(-4050), o, <<3, 2>>, Rat(3), Rat(3), Rat(16), Rat(2), Rat(0), Rat(0)>> :
      o \in TriggerOffsets }

\* the arguments the operations are called with
Times == {Rat(100 * i) : i \in 0..MaxTimeStep}
BeamTimes == {Rat(0), Rat(50)}
SimTrigTimes == {Rat(90 * i) : i \in 1..MaxTimeStep}
TickArgs == {Rat(-1), Rat(2)}
SampleFrameArgs == {<<0, 0>>, <<1, 2>>}
G4Times == {Rat(0), Rat(5000)}
ClockTimeArgs == {Rat(250)}
\* SetConfigValue is called to override the recorded trigger offset
ConfigIndexArgs == {1}
ConfigValueArgs == {Rat(3200)}

\* Configure() / ApplyParams() / SetDefaultTriggerTime(): the provider as
\* configured from the values cfg (in the order of ConfigNames0)
Configured(cfg) ==
  [ fConfigName       |-> ConfigNames0,
    fConfigValue      |-> cfg,
    fG4RefTime        |-> cfg[1],
    fG4RefTimeDefault |-> cfg[1],
    fFramePeriod      |-> cfg[3],
    fTPCClock         |-> ElecClock(cfg[8], cfg[3], cfg[4]),
    fOpticalClock     |-> ElecClock(cfg[8], cfg[3], cfg[5]),
    fTriggerClock     |-> ElecClock(cfg[8], cfg[3], cfg[6]),
    fExternalClock    |-> ElecClock(cfg[8], cfg[3], cfg[7]),
    fTriggerOffsetTPC |-> cfg[2],
    fTriggerTime      |-> cfg[8],
    fBeamGateTime     |-> cfg[9] ]

\* TriggerOffsetTPC() converting ticks with the sign of the offset kept
TriggerOffsetTPC_SignKept(p) ==
  IF RLess(p.fTriggerOffsetTPC, Rat(0))
  THEN p.fTriggerOffsetTPC
  ELSE RDiv(p.fTriggerOffsetTPC, Frequency(p.fTPCClock))

\* TriggerOffsetTPC() converting ticks by the frequency instead of the period
TriggerOffsetTPC_TimesFrequency(p) ==
  IF RLess(p.fTriggerOffsetTPC, Rat(0))
  THEN p.fTriggerOffsetTPC
  ELSE RMul(RNeg(p.fTriggerOffsetTPC), Frequency(p.fTPCClock))

\* TriggerOffsetTPC()
TriggerOffsetTPC(p) ==
  IF RLess(p.fTriggerOffsetTPC, Rat(0))
  THEN p.fTriggerOffsetTPC
  ELSE RDiv(RNeg(p.fTriggerOffsetTPC), Frequency(p.fTPCClock))

\* TriggerTime(), BeamGateTime()
TriggerTime(p) == p.fTriggerTime
BeamGateTime(p) == p.fBeamGateTime

\* doTPCTime(), TPCTime()
doTPCTime(p) == RAdd(TriggerTime(p), TriggerOffsetTPC(p))
TPCTime(p) == doTPCTime(p)

\* doTime2Tick(time) multiplying by the tick period
doTime2Tick_Times(p, time) ==
  RMul(RSub(time, doTPCTime(p)), TickPeriod(p.fTPCClock))

\* doTime2Tick(time), Time2Tick(time)
doTime2Tick(p, time) == RDiv(RSub(time, doTPCTime(p)), TickPeriod(p.fTPCClock))
Time2Tick(p, time) == doTime2Tick(p, time)

\* G4ToElecTime(g4_time): 1.e-3 is 1/1000
G4ToElecTime(p, g4_time) == RSub(RMul(g4_time, <<1, 1000>>), p.fG4RefTime)

\* ConfigNames(), ConfigValues()
ConfigNames(p) == p.fConfigName
ConfigValues(p) == p.fConfigValue

\* SetConfigValue(i, val); the vector is indexed from 0 in the code
SetConfigValue(p, i, val) == [p EXCEPT !.fConfigValue[i + 1] = val]

\* SetTriggerTime(trig_time, beam_time) adding to the stored times
SetTriggerTime_Accumulate(p, trig_time, beam_time) ==
  [p EXCEPT !.fTriggerTime = RAdd(@, trig_time),
            !.fBeamGateTime = RAdd(@, beam_time),
            !.fTPCClock = SetTime(@, RAdd(p.fTriggerTime, trig_time)),
            !.fOpticalClock = SetTime(@, RAdd(p.fTriggerTime, trig_time)),
            !.fTriggerClock = SetTime(@, RAdd(p.fTriggerTime, trig_time))]

\* SetTriggerTime(trig_time, beam_time) leaving the TPC clock alone
SetTriggerTime_NoTPCClock(p, trig_time, beam_time) ==
  [p EXCEPT !.fTriggerTime = trig_time,
            !.fBeamGateTime = beam_time,
            !.fOpticalClock = SetTime(@, trig_time),
            !.fTriggerClock = SetTime(@, trig_time)]

\* SetTriggerTime(trig_time, beam_time) setting the External clock as well
SetTriggerTime_AllClocks(p, trig_time, beam_time) ==
  [p EXCEPT !.fTriggerTime = trig_time,
            !.fBeamGateTime = beam_time,
            !.fTPCClock = SetTime(@, trig_time),
            !.fOpticalClock = SetTime(@, trig_time),
            !.fTriggerClock = SetTime(@, trig_time),
            !.fExternalClock = SetTime(@, trig_time)]

\* SetTriggerTime(trig_time, beam_time)
SetTriggerTime(p, trig_time, beam_time) ==
  [p EXCEPT !.fTriggerTime = trig_time,
            !.fBeamGateTime = beam_time,
            !.fTPCClock = SetTime(@, trig_time),
            !.fOpticalClock = SetTime(@, trig_time),
            !.fTriggerClock = SetTime(@, trig_time)]

\* RebaseG4RefTime(sim_trig_time) moving the trigger time to the simulated one
RebaseG4RefTime_MovesTrigger(p, sim_trig_time) ==
  [p EXCEPT !.fG4RefTime =
              RAdd(RSub(p.fG4RefTimeDefault, TriggerTime(p)), sim_trig_time),
            !.fTriggerTime = sim_trig_time]

\* RebaseG4RefTime(sim_trig_time) with the two times exchanged
RebaseG4RefTime_Exchanged(p, sim_trig_time) ==
  [p EXCEPT !.fG4RefTime =
     RAdd(RSub(p.fG4RefTimeDefault, sim_trig_time), TriggerTime(p))]

\* RebaseG4RefTime(sim_trig_time) starting from the current reference time
RebaseG4RefTime_Compound(p, sim_trig_time) ==
  [p EXCEPT !.fG4RefTime =
     RAdd(RSub(p.fG4RefTime, TriggerTime(p)), sim_trig_time)]

\* RebaseG4RefTime(sim_trig_time)
RebaseG4RefTime(p, sim_trig_time) ==
  [p EXCEPT !.fG4RefTime =
     RAdd(RSub(p.fG4RefTimeDefault, TriggerTime(p)), sim_trig_time)]

\* TPCClock(), OpticalClock(), TriggerClock(), ExternalClock()
TPCClock(p) == p.fTPCClock
OpticalClock(p) == p.fOpticalClock
TriggerClock(p) == p.fTriggerClock
ExternalClock(p) == p.fExternalClock

\* TPCClock(time), OpticalClock(time), TriggerClock(time): a new clock at
\* the given time with the frame period and frequency of the domain
TPCClockAtTime(p, time) ==
  ElecClock(time, FramePeriod(p.fTPCClock), Frequency(p.fTPCClock))
OpticalClockAtTime(p, time) ==
  ElecClock(time, FramePeriod(p.fOpticalClock), Frequency(p.fOpticalClock))
TriggerClockAtTime(p, time) ==
  ElecClock(time, FramePeriod(p.fTriggerClock), Frequency(p.fTriggerClock))

\* ExternalClock(time) with the frequency of the External clock itself
ExternalClockAtTime_OwnFrequency(p, time) ==
  ElecClock(time, FramePeriod(p.fExternalClock), Frequency(p.fExternalClock))

\* ExternalClock(time): the frequency is the Trigger clock's
ExternalClockAtTime(p, time) ==
  ElecClock(time, FramePeriod(p.fExternalClock), Frequency(p.fTriggerClock))

\* TPCClock(sample, frame), OpticalClock(sample, frame),
\* TriggerClock(sample, frame), ExternalClock(sample, frame): a copy of the
\* domain's clock, set to the time of the sample
TPCClockAtSample(p, sample, frame) == SetTimeSF(TPCClock(p), sample, frame)
OpticalClockAtSample(p, sample, frame) == SetTimeSF(OpticalClock(p), sample, frame)
TriggerClockAtSample(p, sample, frame) == SetTimeSF(TriggerClock(p), sample, frame)
ExternalClockAtSample(p, sample, frame) == SetTimeSF(ExternalClock(p), sample, frame)

\* TPCClock(sample, frame) setting the time on the provider's own clock
TPCClockAtSampleSelf_InPlace(p, sample, frame) ==
  [p EXCEPT !.fTPCClock = SetTimeSF(@, sample, frame)]

\* the provider after TPCClock(sample, frame), OpticalClock(sample, frame),
\* TriggerClock(sample, frame), ExternalClock(sample, frame): SetTime acts
\* on the local copy, the member clock is not touched
TPCClockAtSampleSelf(p, sample, frame) == p
OpticalClockAtSampleSelf(p, sample, frame) == p
TriggerClockAtSampleSelf(p, sample, frame) == p
ExternalClockAtSampleSelf(p, sample, frame) == p

\* TPCTick2TrigTime(tick), TPCTick2BeamTime(tick)
TPCTick2TrigTime(p, tick) ==
  RAdd(RMul(TickPeriod(p.fTPCClock), tick), TriggerOffsetTPC(p))
TPCTick2BeamTime(p, tick) ==
  RSub(RAdd(TPCTick2TrigTime(p, tick), TriggerTime(p)), BeamGateTime(p))

\* TPCTDC2Tick(tdc) adding the clock count of the TPC start time
TPCTDC2Tick_Plus(p, tdc) == RAdd(tdc, RDiv(doTPCTime(p), TickPeriod(p.fTPCClock)))

\* TPCTick2TDC(tick), TPCTick2Time(tick), TPCTDC2Tick(tdc)
TPCTick2TDC(p, tick) == RAdd(RDiv(doTPCTime(p), TickPeriod(p.fTPCClock)), tick)
TPCTick2Time(p, tick) == RAdd(doTPCTime(p), RMul(tick, TickPeriod(p.fTPCClock)))
TPCTDC2Tick(p, tdc) == RSub(tdc, RDiv(doTPCTime(p), TickPeriod(p.fTPCClock)))

\* OpticalTick2TDC(tick, sample, frame) without the tick
OpticalTick2TDC_NoTick(p, tick, sample, frame) ==
  Rat(Ticks(p.fOpticalClock, sample, frame))

\* OpticalTick2TDC(tick, sample, frame), OpticalTick2Time(tick, sample, frame)
OpticalTick2TDC(p, tick, sample, frame) ==
  RAdd(Rat(Ticks(p.fOpticalClock, sample, frame)), tick)
OpticalTick2Time(p, tick, sample, frame) ==
  RAdd(Time(p.fOpticalClock, sample, frame),
       RMul(tick, TickPeriod(p.fOpticalClock)))

\* ExternalTick2TDC(tick, sample, frame), ExternalTick2Time(tick, sample, frame)
ExternalTick2TDC(p, tick, sample, frame) ==
  RAdd(Rat(Ticks(p.fExternalClock, sample, frame)), tick)
ExternalTick2Time(p, tick, sample, frame) ==
  RAdd(Time(p.fExternalClock, sample, frame),
       RMul(tick, TickPeriod(p.fExternalClock)))

\* OpticalTick2BeamTime(tick, sample, frame) relative to the trigger time
OpticalTick2BeamTime_FromTrigger(p, tick, sample, frame) ==
  RSub(RAdd(RMul(TickPeriod(p.fOpticalClock), tick),
            Time(p.fOpticalClock, sample, frame)),
       TriggerTime(p))

\* OpticalTick2TrigTime(tick, sample, frame),
\* OpticalTick2BeamTime(tick, sample, frame)
OpticalTick2TrigTime(p, tick, sample, frame) ==
  RSub(RAdd(RMul(TickPeriod(p.fOpticalClock), tick),
            Time(p.fOpticalClock, sample, frame)),
       TriggerTime(p))
OpticalTick2BeamTime(p, tick, sample, frame) ==
  RSub(RAdd(RMul(TickPeriod(p.fOpticalClock), tick),
            Time(p.fOpticalClock, sample, frame)),
       BeamGateTime(p))

\* ExternalTick2TrigTime(tick, sample, frame),
\* ExternalTick2BeamTime(tick, sample, frame)
ExternalTick2TrigTime(p, tick, sample, frame) ==
  RSub(RAdd(RMul(TickPeriod(p.fExternalClock), tick),
            Time(p.fExternalClock, sample, frame)),
       TriggerTime(p))
ExternalTick2BeamTime(p, tick, sample, frame) ==
  RSub(RAdd(RMul(TickPeriod(p.fExternalClock), tick),
            Time(p.fExternalClock, sample, frame)),
       BeamGateTime(p))

\* TPCG4Time2TDC(g4time), OpticalG4Time2TDC(g4time),
\* ExternalG4Time2TDC(g4time), TPCG4Time2Tick(g4time)
TPCG4Time2TDC(p, g4time) ==
  RDiv(G4ToElecTime(p, g4time), TickPeriod(p.fTPCClock))
OpticalG4Time2TDC(p, g4time) ==
  RDiv(G4ToElecTime(p, g4time), TickPeriod(p.fOpticalClock))
ExternalG4Time2TDC(p, g4time) ==
  RDiv(G4ToElecTime(p, g4time), TickPeriod(p.fExternalClock))
TPCG4Time2Tick(p, g4time) ==
  RDiv(RSub(G4ToElecTime(p, g4time), doTPCTime(p)), TickPeriod(p.fTPCClock))

---------------------------------------------------------------------------
(* The state machine: the provider after configuration, then any sequence  *)
(* of calls of its member functions.                                       *)

NoRet == <<>>
Called(op, args, ret) == [op |-> op, args |-> args, ret |-> ret]

Init ==
  /\ \E cfg \in Configurations : det = Configured(cfg)
  /\ call = Called("Configure", <<>>, NoRet)
  /\ lastTrig = <<>>
  /\ lastRebase = <<>>

\* a const member function: the provider and the history are left alone
Const(op, args, ret) ==
  /\ call' = Called(op, args, ret)
  /\ UNCHANGED <<det, lastTrig, lastRebase>>

CallSetTriggerTime ==
  \E t \in Times, b \in BeamTimes :
    /\ det' = SetTriggerTime(det, t, b)
    /\ call' = Called("SetTriggerTime", <<t, b>>, NoRet)
    /\ lastTrig' = <<[trig_time |-> t, beam_time |-> b]>>
    /\ UNCHANGED lastRebase

CallRebaseG4RefTime ==
  \E s \in SimTrigTimes :
    /\ det' = RebaseG4RefTime(det, s)
    /\ call' = Called("RebaseG4RefTime", <<s>>, NoRet)
    /\ lastRebase' =
         <<[trig |-> TriggerTime(det), sim |-> s,
            again |-> /\ lastRebase # <<>>
                      /\ lastRebase[1].trig # TriggerTime(det)]>>
    /\ UNCHANGED lastTrig

CallSetConfigValue ==
  \E i \in ConfigIndexArgs, v \in ConfigValueArgs :
    /\ det' = SetConfigValue(det, i, v)
    /\ call' = Called("SetConfigValue", <<i, v>>, NoRet)
    /\ UNCHANGED <<lastTrig, lastRebase>>

CallTriggerOffsetTPC == Const("TriggerOffsetTPC", <<>>, TriggerOffsetTPC(det))

CallTPCTime == Const("TPCTime", <<>>, TPCTime(det))

CallTime2Tick ==
  \E k \in TickArgs :
    LET t == TPCTick2Time(det, k)
    IN  Const("Time2Tick", <<t>>, Time2Tick(det, t))

CallTPCTick2Time ==
  \E k \in TickArgs : Const("TPCTick2Time", <<k>>, TPCTick2Time(det, k))

CallTPCTick2TrigTime ==
  \E k \in TickArgs : Const("TPCTick2TrigTime", <<k>>, TPCTick2TrigTime(det, k))

CallG4ToElecTime ==
  \E g \in G4Times : Const("G4ToElecTime", <<g>>, G4ToElecTime(det, g))

CallOpticalTick2TDC ==
  \E k \in TickArgs, sf \in SampleFrameArgs :
    Const("OpticalTick2TDC", <<k, sf[1], sf[2]>>, OpticalTick2TDC(det, k, sf[1], sf[2]))

CallOpticalTick2Time ==
  \E k \in TickArgs, sf \in SampleFrameArgs :
    Const("OpticalTick2Time", <<k, sf[1], sf[2]>>, OpticalTick2Time(det, k, sf[1], sf[2]))

CallExternalTick2TDC ==
  \E k \in TickArgs, sf \in SampleFrameArgs :
    Const("ExternalTick2TDC", <<k, sf[1], sf[2]>>, ExternalTick2TDC(det, k, sf[1], sf[2]))

CallExternalTick2Time ==
  \E k \in TickArgs, sf \in SampleFrameArgs :
    Const("ExternalTick2Time", <<k, sf[1], sf[2]>>, ExternalTick2Time(det, k, sf[1], sf[2]))

Next ==
  \/ CallSetTriggerTime
  \/ CallRebaseG4RefTime
  \/ CallSetConfigValue
  \/ CallTriggerOffsetTPC
  \/ CallTPCTime
  \/ CallTime2Tick
  \/ CallTPCTick2Time
  \/ CallTPCTick2TrigTime
  \/ CallG4ToElecTime
  \/ CallOpticalTick2TDC
  \/ CallOpticalTick2Time
  \/ CallExternalTick2TDC
  \/ CallExternalTick2Time

Spec == Init /\ [][Next]_vars

CallTPCClockAtTime ==
  \E t \in ClockTimeArgs : Const("TPCClock(time)", <<t>>, TPCClockAtTime(det, t))

CallOpticalClockAtTime ==
  \E t \in ClockTimeArgs : Const("OpticalClock(time)", <<t>>, OpticalClockAtTime(det, t))

CallTriggerClockAtTime ==
  \E t \in ClockTimeArgs : Const("TriggerClock(time)", <<t>>, TriggerClockAtTime(det, t))

CallExternalClockAtTime ==
  \E t \in ClockTimeArgs : Const("ExternalClock(time)", <<t>>, ExternalClockAtTime(det, t))

CallTPCClockAtSample ==
  \E sf \in SampleFrameArgs :
    /\ det' = TPCClockAtSampleSelf(det, sf[1], sf[2])
    /\ call' = Called("TPCClock(sample, frame)", <<sf[1], sf[2]>>,
                      TPCClockAtSample(det, sf[1], sf[2]))
    /\ UNCHANGED <<lastTrig, lastRebase>>

CallOpticalClockAtSample ==
  \E sf \in SampleFrameArgs :
    /\ det' = OpticalClockAtSampleSelf(det, sf[1], sf[2])
    /\ call' = Called("OpticalClock(sample, frame)", <<sf[1], sf[2]>>,
                      OpticalClockAtSample(det, sf[1], sf[2]))
    /\ UNCHANGED <<lastTrig, lastRebase>>

CallTriggerClockAtSample ==
  \E sf \in SampleFrameArgs :
    /\ det' = TriggerClockAtSampleSelf(det, sf[1], sf[2])
    /\ call' = Called("TriggerClock(sample, frame)", <<sf[1], sf[2]>>,
                      TriggerClockAtSample(det, sf[1], sf[2]))
    /\ UNCHANGED <<lastTrig, lastRebase>>

CallExternalClockAtSample ==
  \E sf \in SampleFrameArgs :
    /\ det' = ExternalClockAtSampleSelf(det, sf[1], sf[2])
    /\ call' = Called("ExternalClock(sample, frame)", <<sf[1], sf[2]>>,
                      ExternalClockAtSample(det, sf[1], sf[2]))
    /\ UNCHANGED <<lastTrig, lastRebase>>

CallTPCTick2BeamTime ==
  \E k \in TickArgs : Const("TPCTick2BeamTime", <<k>>, TPCTick2BeamTime(det, k))

CallOpticalTick2TrigTime ==
  \E k \in TickArgs, sf \in SampleFrameArgs :
    Const("OpticalTick2TrigTime", <<k, sf[1], sf[2]>>, OpticalTick2TrigTime(det, k, sf[1], sf[2]))

CallOpticalTick2BeamTime ==
  \E k \in TickArgs, sf \in SampleFrameArgs :
    Const("OpticalTick2BeamTime", <<k, sf[1], sf[2]>>, OpticalTick2BeamTime(det, k, sf[1], sf[2]))

CallExternalTick2TrigTime ==
  \E k \in TickArgs, sf \in SampleFrameArgs :
    Const("ExternalTick2TrigTime", <<k, sf[1], sf[2]>>, ExternalTick2TrigTime(det, k, sf[1], sf[2]))

CallExternalTick2BeamTime ==
  \E k \in TickArgs, sf \in SampleFrameArgs :
    Const("ExternalTick2BeamTime", <<k, sf[1], sf[2]>>, ExternalTick2BeamTime(det, k, sf[1], sf[2]))

CallTPCTick2TDC ==
  \E k \in TickArgs : Const("TPCTick2TDC", <<k>>, TPCTick2TDC(det, k))

CallTPCTDC2Tick ==
  \E k \in TickArgs :
    LET tdc == TPCTick2TDC(det, k)
    IN  Const("TPCTDC2Tick", <<tdc>>, TPCTDC2Tick(det, tdc))

CallTPCG4Time2TDC ==
  \E g \in G4Times : Const("TPCG4Time2TDC", <<g>>, TPCG4Time2TDC(det, g))

CallOpticalG4Time2TDC ==
  \E g \in G4Times : Const("OpticalG4Time2TDC", <<g>>, OpticalG4Time2TDC(det, g))

CallExternalG4Time2TDC ==
  \E g \in G4Times : Const("ExternalG4Time2TDC", <<g>>, ExternalG4Time2TDC(det, g))

CallTPCG4Time2Tick ==
  \E g \in G4Times : Const("TPCG4Time2Tick", <<g>>, TPCG4Time2Tick(det, g))

\* every member function of the provider: the calls of Next and the
\* remaining clock accessors and conversions
NextAll ==
  \/ Next
  \/ CallTPCClockAtTime
  \/ CallOpticalClockAtTime
  \/ CallTriggerClockAtTime
  \/ CallExternalClockAtTime
  \/ CallTPCClockAtSample
  \/ CallOpticalClockAtSample
  \/ CallTriggerClockAtSample
  \/ CallExternalClockAtSample
  \/ CallTPCTick2BeamTime
  \/ CallOpticalTick2TrigTime
  \/ CallOpticalTick2BeamTime
  \/ CallExternalTick2TrigTime
  \/ CallExternalTick2BeamTime
  \/ CallTPCTick2TDC
  \/ CallTPCTDC2Tick
  \/ CallTPCG4Time2TDC
  \/ CallOpticalG4Time2TDC
  \/ CallExternalG4Time2TDC
  \/ CallTPCG4Time2Tick

AllSpec == Init /\ [][NextAll]_vars

\* the event timing state and the calls that read it: SetTriggerTime, the
\* clock accessors and the conversions that do not go through the Geant4
\* reference time
NextEvent ==
  \/ CallSetTriggerTime
  \/ CallTriggerOffsetTPC
  \/ CallTPCTime
  \/ CallTime2Tick
  \/ CallTPCTick2Time
  \/ CallTPCTick2TrigTime
  \/ CallTPCTick2BeamTime
  \/ CallTPCTick2TDC
  \/ CallTPCTDC2Tick
  \/ CallOpticalTick2TrigTime
  \/ CallOpticalTick2BeamTime
  \/ CallOpticalTick2TDC
  \/ CallOpticalTick2Time
  \/ CallExternalTick2TrigTime
  \/ CallExternalTick2BeamTime
  \/ CallExternalTick2TDC
  \/ CallExternalTick2Time
  \/ CallTPCClockAtTime
  \/ CallOpticalClockAtTime
  \/ CallTriggerClockAtTime
  \/ CallExternalClockAtTime
  \/ CallTPCClockAtSample
  \/ CallOpticalClockAtSample
  \/ CallTriggerClockAtSample
  \/ CallExternalClockAtSample

EventSpec == Init /\ [][NextEvent]_vars

\* the tick arithmetic of the clocks alone: the configured provider and
\* the conversions that go through ElecClock::Ticks and ElecClock::Time
NextClock ==
  \/ CallOpticalTick2TDC
  \/ CallOpticalTick2Time
  \/ CallExternalTick2TDC
  \/ CallExternalTick2Time

ClockSpec == Init /\ [][NextClock]_vars

---------------------------------------------------------------------------
(* Properties.                                                             *)

TickRange == (-MaxTick)..MaxTick
IndexRange == 0..MaxTick

\* C1: after any sequence of calls whose last SetTriggerTime call is
\* SetTriggerTime(t, b), TriggerTime() = t, BeamGateTime() = b and the
\* reference instants of the TPC, Optical and Trigger clocks all equal t:
\* the latest call overwrites, nothing is accumulated from earlier calls.
C1_LatestTriggerTimeWins ==
  lastTrig # <<>> =>
    LET t == lastTrig[1].trig_time
        b == lastTrig[1].beam_time
    IN  /\ TriggerTime(det) = t
        /\ BeamGateTime(det) = b
        /\ ClockTime(TPCClock(det)) = t
        /\ ClockTime(OpticalClock(det)) = t
        /\ ClockTime(TriggerClock(det)) = t

\* a SetTriggerTime(100, .) call, a rebase, then SetTriggerTime(0, 50) and
\* a conversion call
C1_Witness ==
  /\ lastTrig = <<[trig_time |-> Rat(0), beam_time |-> Rat(50)]>>
  /\ lastRebase # <<>>
  /\ lastRebase[1].trig = Rat(100)
  /\ call.op = "Time2Tick"
  /\ TriggerTime(det) = Rat(0)

\* C2: TriggerOffsetTPC() returns the configured value x unchanged when
\* x < 0 and -x / tpcFrequency when x >= 0 (x = 0 included); the result is
\* never positive.
C2_TriggerOffsetDecoding ==
  LET x == det.fTriggerOffsetTPC
      f == Frequency(TPCClock(det))
      r == TriggerOffsetTPC(det)
  IN  /\ x[1] < 0 => r = x
      /\ x[1] >= 0 => r = Norm(-x[1] * f[2], x[2] * f[1])
      /\ r[1] <= 0

\* 3200 ticks at 2 MHz decoded to -1600 us by a TriggerOffsetTPC() call
C2_Witness ==
  /\ det.fTriggerOffsetTPC = Rat(3200)
  /\ Frequency(TPCClock(det)) = Rat(2)
  /\ call = Called("TriggerOffsetTPC", <<>>, Rat(-1600))

\* the provider configured like p but with the trigger offset x
WithTriggerOffset(p, x) ==
  [p EXCEPT !.fTriggerOffsetTPC = x, !.fConfigValue[2] = x]

\* the tick counts the two encodings are compared on
TickCounts == (1..MaxTick) \cup {3200}

\* C3: for every tick count n > 0, the provider configured with the
\* trigger offset n (ticks) and the one configured with -n / tpcFrequency
\* (microseconds) give the same TPCTime(), Time2Tick, TPCTick2Time and
\* TPCTick2TrigTime, at every reachable trigger time.
C3_EncodingsEquivalent ==
  \A n \in TickCounts :
    LET f == Frequency(TPCClock(det))
        inTicks == WithTriggerOffset(det, Rat(n))
        inMicros == WithTriggerOffset(det, RDiv(Rat(-n), f))
    IN  /\ TPCTime(inTicks) = TPCTime(inMicros)
        /\ \A k \in IndexRange :
             /\ TPCTick2Time(inTicks, Rat(k)) = TPCTick2Time(inMicros, Rat(k))
             /\ TPCTick2TrigTime(inTicks, Rat(k)) = TPCTick2TrigTime(inMicros, Rat(k))
             /\ Time2Tick(inTicks, Rat(50 * k)) = Time2Tick(inMicros, Rat(50 * k))

\* the provider configured with 3200 ticks at 2 MHz, at trigger time 100:
\* TPCTime() returned -1500, what the provider configured with -1600 returns
C3_Witness ==
  /\ det.fTriggerOffsetTPC = Rat(3200)
  /\ Frequency(TPCClock(det)) = Rat(2)
  /\ TriggerTime(det) = Rat(100)
  /\ call = Called("TPCTime", <<>>, Rat(-1500))
  /\ TPCTime(WithTriggerOffset(det, Rat(-1600))) = Rat(-1500)

\* the configured trigger offset in microseconds, from the configured
\* numbers alone
OffsetInMicroseconds(x, f) ==
  IF x[1] < 0 THEN x ELSE Norm(-x[1] * f[2], x[2] * f[1])

\* C4: in every state reached from configuration by SetTriggerTime and
\* RebaseG4RefTime calls, TPCTime() = TriggerTime() + TriggerOffsetTPC():
\* it is the trigger time of the latest SetTriggerTime call (the default
\* one before any call) plus the configured offset in microseconds,
\* whatever RebaseG4RefTime calls were made; with the offset configured
\* as -1600, TPCTime() = TriggerTime() - 1600.
C4_TPCTimeFollowsTrigger ==
  LET off == OffsetInMicroseconds(det.fTriggerOffsetTPC, Frequency(TPCClock(det)))
      trig == IF lastTrig = <<>> THEN det.fConfigValue[8] ELSE lastTrig[1].trig_time
  IN  /\ TPCTime(det) = RAdd(trig, off)
      /\ TPCTime(det) = RAdd(TriggerTime(det), TriggerOffsetTPC(det))
      /\ det.fTriggerOffsetTPC = Rat(-1600) =>
           TPCTime(det) = RSub(TriggerTime(det), Rat(1600))

\* offset -1600: SetTriggerTime(100, .), then RebaseG4RefTime(90), then
\* TPCTime() returned -1500
C4_Witness ==
  /\ det.fTriggerOffsetTPC = Rat(-1600)
  /\ lastTrig # <<>>
  /\ lastTrig[1].trig_time = Rat(100)
  /\ lastRebase # <<>>
  /\ lastRebase[1].trig = Rat(100)
  /\ lastRebase[1].sim = Rat(90)
  /\ call = Called("TPCTime", <<>>, Rat(-1500))

\* C5: for every integer k, in every reachable state (any trigger time,
\* either encoding of the offset), Time2Tick(TPCTime() + k * tpcTickPeriod)
\* = k, that is Time2Tick(TPCTick2Time(k)) = k.
C5_TickTimeRoundTrip ==
  \A k \in TickRange :
    /\ Time2Tick(det, RAdd(TPCTime(det),
                           RMul(Rat(k), TickPeriod(TPCClock(det))))) = Rat(k)
    /\ Time2Tick(det, TPCTick2Time(det, Rat(k))) = Rat(k)

\* Time2Tick called with TPCTick2Time(2) on a 3 MHz TPC clock (tick period
\* 1/3 us), the offset given in ticks, after SetTriggerTime(100, .)
C5_Witness ==
  /\ Frequency(TPCClock(det)) = Rat(3)
  /\ det.fTriggerOffsetTPC = Rat(3200)
  /\ TriggerTime(det) = Rat(100)
  /\ call.op = "Time2Tick"
  /\ call.args = <<TPCTick2Time(det, Rat(2))>>
  /\ call.ret = Rat(2)

\* C6: after RebaseG4RefTime(simTrig) called at trigger time T, whatever
\* came before, g4RefTime = g4RefTimeDefault - T + simTrig, and it keeps
\* that value until the next RebaseG4RefTime call: every G4ToElecTime(g4_ns)
\* in between returns g4_ns * 1e-3 - g4RefTime.
C6_RebaseSetsG4RefTime ==
  lastRebase # <<>> =>
    LET ref == RAdd(RSub(det.fG4RefTimeDefault, lastRebase[1].trig),
                    lastRebase[1].sim)
    IN  /\ det.fG4RefTime = ref
        /\ \A i \in IndexRange :
             G4ToElecTime(det, Rat(2500 * i)) = RSub(<<5 * i, 2>>, ref)
        /\ call.op = "G4ToElecTime" =>
             call.ret = RSub(RMul(call.args[1], <<1, 1000>>), ref)

\* g4RefTimeDefault = 1, RebaseG4RefTime(90) at trigger time 100 gives
\* g4RefTime = -9; after a later SetTriggerTime(0, .), G4ToElecTime(5000)
\* returned 14
C6_Witness ==
  /\ det.fG4RefTimeDefault = Rat(1)
  /\ lastRebase # <<>>
  /\ lastRebase[1].trig = Rat(100)
  /\ lastRebase[1].sim = Rat(90)
  /\ det.fG4RefTime = Rat(-9)
  /\ TriggerTime(det) = Rat(0)
  /\ call = Called("G4ToElecTime", <<Rat(5000)>>, Rat(14))

\* the latest RebaseG4RefTime call followed another one made at a
\* different trigger time: SetTriggerTime changed it in between
RebasedAgain == lastRebase # <<>> /\ lastRebase[1].again

\* C7 as stated: when RebaseG4RefTime is called, SetTriggerTime changes
\* the trigger time and RebaseG4RefTime is called again, the shift
\* compounds: the g4RefTime after the second call is not the one that
\* g4RefTimeDefault, the current TriggerTime() and the second simTrigTime
\* determine.
C7_ShiftCompounds ==
  (RebasedAgain /\ call.op = "RebaseG4RefTime") =>
    det.fG4RefTime #
      RAdd(RSub(det.fG4RefTimeDefault, TriggerTime(det)), call.args[1])

\* C7 as amended: RebaseG4RefTime never compounds. A second call made
\* after SetTriggerTime changed the trigger time overwrites the shift of
\* the first: right after it g4RefTime is g4RefTimeDefault - TriggerTime()
\* + simTrigTime of that call, the value the same call gives on the
\* provider whose g4RefTime was never rebased, and calling it once more
\* with the same argument changes nothing.
C7_RebaseOverwrites ==
  (RebasedAgain /\ call.op = "RebaseG4RefTime") =>
    LET s == call.args[1]
        fresh == [det EXCEPT !.fG4RefTime = det.fG4RefTimeDefault]
    IN  /\ det.fG4RefTime =
             RAdd(RSub(det.fG4RefTimeDefault, TriggerTime(det)), s)
        /\ det = RebaseG4RefTime(fresh, s)
        /\ RebaseG4RefTime(det, s) = det

\* RebaseG4RefTime(90) at trigger time 0, SetTriggerTime(100, .), then
\* RebaseG4RefTime(90): g4RefTime = 1 - 100 + 90 = -9, not 91 - 100 + 90
C7_Witness ==
  /\ RebasedAgain
  /\ call = Called("RebaseG4RefTime", <<Rat(90)>>, NoRet)
  /\ det.fG4RefTimeDefault = Rat(1)
  /\ TriggerTime(det) = Rat(100)
  /\ det.fG4RefTime = Rat(-9)

\* C8 as stated: after SetTriggerTime(t, b), TPCClock().Time(0, 0) = t.
C8_TimeOfSampleZeroIsTrigger ==
  lastTrig # <<>> => Time(TPCClock(det), 0, 0) = lastTrig[1].trig_time

\* C8 as amended: after SetTriggerTime(t, b), the reference instant of the
\* TPC clock, TPCClock().Time(), is t, as are TriggerTime() and, for b,
\* BeamGateTime(); TPCClock().Time(0, 0), the time of sample 0 of frame 0,
\* is 0 whatever t is.
C8_ReferenceInstantIsTrigger ==
  lastTrig # <<>> =>
    /\ ClockTime(TPCClock(det)) = lastTrig[1].trig_time
    /\ TriggerTime(det) = lastTrig[1].trig_time
    /\ BeamGateTime(det) = lastTrig[1].beam_time
    /\ Time(TPCClock(det), 0, 0) = Rat(0)

\* right after SetTriggerTime(100, 50)
C8_Witness ==
  /\ call = Called("SetTriggerTime", <<Rat(100), Rat(50)>>, NoRet)
  /\ lastTrig = <<[trig_time |-> Rat(100), beam_time |-> Rat(50)]>>
  /\ ClockTime(TPCClock(det)) = Rat(100)

\* the four clocks of the provider
Clocks(p) == {TPCClock(p), OpticalClock(p), TriggerClock(p), ExternalClock(p)}

\* a frame of clock c holds a whole number of ticks
WholeFrame(c) == RMul(FramePeriod(c), Frequency(c))[2] = 1

\* Ticks(sample, frame) * tickPeriod = Time(sample, frame) on clock c
TicksMatchTime(c, sample, frame) ==
  RMul(Rat(Ticks(c, sample, frame)), TickPeriod(c)) = Time(c, sample, frame)

\* C9 as stated: on every clock and for every (sample, frame),
\* Ticks(sample, frame) * tickPeriod = Time(sample, frame), so that
\* OpticalTick2TDC(tick, s, f) * opticalTickPeriod = OpticalTick2Time(tick,
\* s, f) and likewise for the External clock, also when framePeriod *
\* frequency is not an integer.
C9_TicksInvertTime ==
  /\ \A c \in Clocks(det) : \A s \in IndexRange, f \in IndexRange :
       TicksMatchTime(c, s, f)
  /\ \A k \in TickRange, s \in IndexRange, f \in IndexRange :
       /\ RMul(OpticalTick2TDC(det, Rat(k), s, f), TickPeriod(OpticalClock(det)))
            = OpticalTick2Time(det, Rat(k), s, f)
       /\ RMul(ExternalTick2TDC(det, Rat(k), s, f), TickPeriod(ExternalClock(det)))
            = ExternalTick2Time(det, Rat(k), s, f)

\* C9 as amended: Ticks(sample, frame) * tickPeriod = Time(sample, frame)
\* on every clock whose framePeriod * frequency is an integer, and on any
\* clock for frame 0; under the same condition on the Optical (External)
\* clock, OpticalTick2TDC * opticalTickPeriod = OpticalTick2Time (and
\* likewise for External).
C9_TicksInvertTimeOnWholeFrames ==
  /\ \A c \in Clocks(det) : \A s \in IndexRange, f \in IndexRange :
       (WholeFrame(c) \/ f = 0) => TicksMatchTime(c, s, f)
  /\ \A k \in TickRange, s \in IndexRange, f \in IndexRange :
       /\ (WholeFrame(OpticalClock(det)) \/ f = 0) =>
            RMul(OpticalTick2TDC(det, Rat(k), s, f), TickPeriod(OpticalClock(det)))
              = OpticalTick2Time(det, Rat(k), s, f)
       /\ (WholeFrame(ExternalClock(det)) \/ f = 0) =>
            RMul(ExternalTick2TDC(det, Rat(k), s, f), TickPeriod(ExternalClock(det)))
              = ExternalTick2Time(det, Rat(k), s, f)

\* OpticalTick2TDC(2, 1, 2) called on the 64 MHz optical clock with frames
\* of 1600 us: 2 * 102400 + 1 + 2 ticks
C9_Witness ==
  /\ WholeFrame(OpticalClock(det))
  /\ FrameTicks(OpticalClock(det)) = 102400
  /\ call = Called("OpticalTick2TDC", <<Rat(2), 1, 2>>, Rat(204803))
  /\ OpticalTick2Time(det, Rat(2), 1, 2) = RMul(Rat(204803), <<1, 64>>)

\* what SetTriggerTime must leave alone, between provider p and provider q
SameButTrigger(p, q) ==
  /\ q.fExternalClock = p.fExternalClock
  /\ q.fG4RefTime = p.fG4RefTime
  /\ q.fG4RefTimeDefault = p.fG4RefTimeDefault
  /\ q.fTriggerOffsetTPC = p.fTriggerOffsetTPC
  /\ q.fFramePeriod = p.fFramePeriod
  /\ \A c \in {"fTPCClock", "fOpticalClock", "fTriggerClock"} :
       /\ q[c].fFrequency = p[c].fFrequency
       /\ q[c].fFramePeriod = p[c].fFramePeriod
  /\ q.fConfigName = p.fConfigName
  /\ q.fConfigValue = p.fConfigValue
  /\ \A i \in IndexRange :
       G4ToElecTime(q, Rat(2500 * i)) = G4ToElecTime(p, Rat(2500 * i))

\* C10: SetTriggerTime(t, b) changes only the trigger time, the beam gate
\* time and the reference instants of the TPC, Optical and Trigger clocks:
\* the External clock, g4RefTime, g4RefTimeDefault, the configured offset,
\* the frequencies and frame periods and the configuration lists are left
\* as they were, and G4ToElecTime returns what it returned before. No
\* call at all changes the External clock's reference instant.
C10_SetTriggerTimeFrame ==
  [][ /\ ClockTime(ExternalClock(det'))  = ClockTime(ExternalClock(det))
      /\ call'.op = "SetTriggerTime" => SameButTrigger(det, det') ]_vars

\* right after SetTriggerTime(100, 50) on a rebased provider: the External
\* clock is still at its initial reference instant
C10_Witness ==
  /\ call = Called("SetTriggerTime", <<Rat(100), Rat(50)>>, NoRet)
  /\ lastRebase # <<>>
  /\ det.fG4RefTime # det.fG4RefTimeDefault
  /\ ClockTime(ExternalClock(det)) = det.fConfigValue[8]
  /\ ClockTime(ExternalClock(det)) # ClockTime(TriggerClock(det))

\* C11: ExternalClock(time) returns a clock whose reference instant is
\* the given time, whose frame period is the External clock's and whose
\* frequency is the Trigger clock's: whenever the two frequencies differ,
\* ExternalClock(time).Frequency() # ExternalClock().Frequency(). The
\* TPC, Optical and Trigger counterparts return their own frequency.
C11_ExternalClockBorrowsTriggerFrequency ==
  /\ \A t \in Times \cup ClockTimeArgs :
       LET c == ExternalClockAtTime(det, t)
       IN  /\ ClockTime(c) = t
           /\ FramePeriod(c) = FramePeriod(ExternalClock(det))
           /\ Frequency(c) = Frequency(TriggerClock(det))
           /\ Frequency(ExternalClock(det)) # Frequency(TriggerClock(det)) =>
                Frequency(c) # Frequency(ExternalClock(det))
           /\ Frequency(TPCClockAtTime(det, t)) = Frequency(TPCClock(det))
           /\ Frequency(OpticalClockAtTime(det, t)) = Frequency(OpticalClock(det))
           /\ Frequency(TriggerClockAtTime(det, t)) = Frequency(TriggerClock(det))
  /\ call.op = "ExternalClock(time)" =>
       call.ret = ElecClock(call.args[1], FramePeriod(ExternalClock(det)),
                            Frequency(TriggerClock(det)))

\* ExternalClock(250) called after SetTriggerTime(100, .) on the provider
\* with a 31.25 MHz External and a 16 MHz Trigger clock: the clock returned
\* runs at 16 MHz
C11_Witness ==
  /\ call.op = "ExternalClock(time)"
  /\ call.args = <<Rat(250)>>
  /\ call.ret.fTime = Rat(250)
  /\ call.ret.fFrequency = Rat(16)
  /\ Frequency(ExternalClock(det)) = <<125, 4>>
  /\ lastTrig # <<>>
  /\ TriggerTime(det) = Rat(100)

\* D_Tick2BeamTime = D_Tick2TrigTime + TriggerTime() - BeamGateTime() on
\* provider p, for the three sampled domains at one (tick, sample, frame)
BeamTimeFromTrigTime(p, tick, sample, frame) ==
  LET shift == RSub(TriggerTime(p), BeamGateTime(p))
  IN  /\ TPCTick2BeamTime(p, tick) = RAdd(TPCTick2TrigTime(p, tick), shift)
      /\ OpticalTick2BeamTime(p, tick, sample, frame)
           = RAdd(OpticalTick2TrigTime(p, tick, sample, frame), shift)
      /\ ExternalTick2BeamTime(p, tick, sample, frame)
           = RAdd(ExternalTick2TrigTime(p, tick, sample, frame), shift)

\* D_Tick2BeamTime and D_Tick2TrigTime agree on provider p, for the three
\* sampled domains at one (tick, sample, frame)
BeamTimeIsTrigTime(p, tick, sample, frame) ==
  /\ TPCTick2BeamTime(p, tick) = TPCTick2TrigTime(p, tick)
  /\ OpticalTick2BeamTime(p, tick, sample, frame)
       = OpticalTick2TrigTime(p, tick, sample, frame)
  /\ ExternalTick2BeamTime(p, tick, sample, frame)
       = ExternalTick2TrigTime(p, tick, sample, frame)

\* one of the three agrees
SomeBeamTimeIsTrigTime(p, tick, sample, frame) ==
  \/ TPCTick2BeamTime(p, tick) = TPCTick2TrigTime(p, tick)
  \/ OpticalTick2BeamTime(p, tick, sample, frame)
       = OpticalTick2TrigTime(p, tick, sample, frame)
  \/ ExternalTick2BeamTime(p, tick, sample, frame)
       = ExternalTick2TrigTime(p, tick, sample, frame)

\* C12: for the TPC, Optical and External domains, every tick, sample and
\* frame and every reachable trigger and beam gate time, D_Tick2BeamTime =
\* D_Tick2TrigTime + TriggerTime() - BeamGateTime(); the two coincide
\* exactly when the beam gate time equals the trigger time.
C12_BeamTimeFromTrigTime ==
  /\ \A k \in TickRange, s \in IndexRange, f \in IndexRange :
       /\ BeamTimeFromTrigTime(det, Rat(k), s, f)
       /\ BeamGateTime(det) = TriggerTime(det) => BeamTimeIsTrigTime(det, Rat(k), s, f)
       /\ BeamGateTime(det) # TriggerTime(det) => ~SomeBeamTimeIsTrigTime(det, Rat(k), s, f)
  /\ call.op = "OpticalTick2BeamTime" =>
       call.ret = RAdd(OpticalTick2TrigTime(det, call.args[1], call.args[2], call.args[3]),
                       RSub(TriggerTime(det), BeamGateTime(det)))

\* after SetTriggerTime(100, 50), OpticalTick2BeamTime(2, 1, 2) returned
\* 50 us more than OpticalTick2TrigTime(2, 1, 2)
C12_Witness ==
  /\ TriggerTime(det) = Rat(100)
  /\ BeamGateTime(det) = Rat(50)
  /\ call.op = "OpticalTick2BeamTime"
  /\ call.args = <<Rat(2), 1, 2>>
  /\ call.ret = RAdd(OpticalTick2TrigTime(det, Rat(2), 1, 2), Rat(50))
  /\ call.ret # OpticalTick2TrigTime(det, Rat(2), 1, 2)

\* the electronics times and clock counts the TPC conversions are
\* composed on
TimeRange == {Rat(50 * k) : k \in TickRange}

\* C13 as stated: TPCTDC2Tick is the inverse of Time2Tick:
\* TPCTDC2Tick(Time2Tick(t)) = t and Time2Tick(TPCTDC2Tick(x)) = x for
\* every t, x, trigger time and offset.
C13_TDC2TickInvertsTime2Tick ==
  \A t \in TimeRange :
    /\ TPCTDC2Tick(det, Time2Tick(det, t)) = t
    /\ Time2Tick(det, TPCTDC2Tick(det, t)) = t

\* C13 as amended: TPCTDC2Tick is the inverse of TPCTick2TDC, where
\* TPCTick2TDC(tick) = TPCTime() / tpcTickPeriod + tick: composing the two
\* returns the original argument, for every argument, trigger time and
\* offset. Time2Tick maps the same way as TPCTDC2Tick, from a time instead
\* of a clock count: Time2Tick(t) = TPCTDC2Tick(t / tpcTickPeriod).
C13_TDC2TickInvertsTick2TDC ==
  /\ \A k \in TickRange :
       /\ TPCTDC2Tick(det, TPCTick2TDC(det, Rat(k))) = Rat(k)
       /\ TPCTick2TDC(det, TPCTDC2Tick(det, Rat(k))) = Rat(k)
  /\ \A t \in TimeRange :
       Time2Tick(det, t) = TPCTDC2Tick(det, RDiv(t, TickPeriod(TPCClock(det))))
  /\ call.op = "TPCTDC2Tick" =>
       TPCTick2TDC(det, call.ret) = call.args[1]

\* after SetTriggerTime(100, .), TPCTDC2Tick called with the clock count
\* of tick 2 returned 2; composed with Time2Tick it does not return its
\* argument
C13_Witness ==
  /\ TriggerTime(det) = Rat(100)
  /\ call.op = "TPCTDC2Tick"
  /\ call.args = <<TPCTick2TDC(det, Rat(2))>>
  /\ call.ret = Rat(2)
  /\ TPCTDC2Tick(det, Time2Tick(det, Rat(100))) # Rat(100)

\* the operations that are not const member functions
Mutators == {"SetTriggerTime", "RebaseG4RefTime", "SetConfigValue"}

\* what the conversions read of provider p: the trigger time, the beam
\* gate time, the G4 reference time and the reference instant of each of
\* the four clocks
ReferenceState(p) ==
  <<TriggerTime(p), BeamGateTime(p), p.fG4RefTime, ClockTime(p.fTPCClock),
    ClockTime(p.fOpticalClock), ClockTime(p.fTriggerClock),
    ClockTime(p.fExternalClock)>>

\* C14: no conversion and no clock accessor, D_Clock(sample, frame)
\* included, changes the provider: the trigger time, the beam gate time,
\* the G4 reference time and the four clocks' reference instants are the
\* same before and after the call. The provider's state changes only
\* through SetTriggerTime, RebaseG4RefTime and reconfiguration.
C14_AccessorsLeaveProvider ==
  [][/\ call'.op \notin Mutators =>
          /\ det' = det
          /\ ReferenceState(det') = ReferenceState(det)
     /\ det' # det => call'.op \in Mutators]_vars

\* after SetTriggerTime(100, .) and a rebase, TPCClock(1, 2) returned a
\* clock at another time than the provider's TPC clock, which is still at
\* the trigger time
C14_Witness ==
  /\ lastTrig # <<>>
  /\ lastRebase # <<>>
  /\ TriggerTime(det) = Rat(100)
  /\ call.op = "TPCClock(sample, frame)"
  /\ call.args = <<1, 2>>
  /\ call.ret = SetTimeSF(TPCClock(det), 1, 2)
  /\ ClockTime(call.ret) # ClockTime(TPCClock(det))
  /\ ClockTime(TPCClock(det)) = TriggerTime(det)

===========================================================================
